---------------------------- MODULE Spec2Model ----------------------------
(***************************************************************************)
(* A model of the query-interpretation-and-routing engine and of the       *)
(* provider fetchers with their disk caches (eubot_analytics).             *)
(*                                                                         *)
(* Texts are TLA+ strings; the regular expressions and the substring       *)
(* tests of the source are computed character by character.  Python        *)
(* dictionaries are functions whose DOMAIN is the set of keys present.     *)
(* A call that raises yields a record of kind "raise".                     *)
(***************************************************************************)
EXTENDS Integers, Sequences, FiniteSets, TLC

VARIABLES
    text,       \* the user's message of this request
    today,      \* datetime.today() as a proleptic Gregorian ordinal
    USE_LLM,    \* ai_parser.USE_LLM: whether a model client is configured
    op,         \* the operation that ran last
    out,        \* what it returned (or that it raised)
    calls,      \* the functions it called, in call order
    year,       \* datetime.now().year
    files,      \* the cache files on disk: path -> what was written
    writer,     \* path -> the request whose fetch wrote the file
    first,      \* request -> what the first fetch that stored it returned
    last,       \* the last fetch call: its request, upstream and outcome
    catalog,    \* ai_parser.INDICATOR_CATALOG, the module-level dict
    synonyms,   \* ai_parser.SYNONYMS, the module-level dict
    prev,       \* what the request before this one returned
    disk,       \* the cache file two concurrent fetches share: its lines
    pc,         \* where each of the concurrent fetches is
    off,        \* the lines each of them has written to its open file
    res         \* what each of them returned

request == <<text, today, USE_LLM, op, out, calls>>
fetches == <<year, files, writer, first, last>>
shared == <<catalog, synonyms, prev, disk, pc, off, res>>
vars == <<text, today, USE_LLM, op, out, calls, year, files, writer, first, last,
          catalog, synonyms, prev, disk, pc, off, res>>

-----------------------------------------------------------------------------
(* Strings *)

Char(s, i) == SubSeq(s, i, i)

StartsAt(s, i, p) ==
    /\ i >= 1
    /\ i + Len(p) - 1 <= Len(s)
    /\ SubSeq(s, i, i + Len(p) - 1) = p

LowerMap ==
    [A |-> "a", B |-> "b", C |-> "c", D |-> "d", E |-> "e", F |-> "f", G |-> "g",
     H |-> "h", I |-> "i", J |-> "j", K |-> "k", L |-> "l", M |-> "m", N |-> "n",
     O |-> "o", P |-> "p", Q |-> "q", R |-> "r", S |-> "s", T |-> "t", U |-> "u",
     V |-> "v", W |-> "w", X |-> "x", Y |-> "y", Z |-> "z"]

LowerChar(c) == IF c \in DOMAIN LowerMap THEN LowerMap[c] ELSE c

\* str.lower()
Lower(s) ==
    LET low[i \in 0..Len(s)] == IF i = 0 THEN "" ELSE low[i - 1] \o LowerChar(Char(s, i))
    IN  low[Len(s)]

Digits == <<"0", "1", "2", "3", "4", "5", "6", "7", "8", "9">>

IsDigit(c) == \E d \in DOMAIN Digits : Digits[d] = c
IsSpace(c) == c \in {" ", "\t", "\n"}
\* \w of the re module
IsWordChar(c) ==
    \/ c \in DOMAIN LowerMap
    \/ \E u \in DOMAIN LowerMap : LowerMap[u] = c
    \/ IsDigit(c)
    \/ c = "_"

Min(S) == CHOOSE x \in S : \A y \in S : x <= y

\* The one value of a singleton.  Only({F(x) : x \in {e}}) is F(e) with e
\* computed once, however often F reads it.
Only(S) == CHOOSE x \in S : TRUE

\* Where the run of spaces (of digits) that starts at i ends
SkipSpaces(s, i) == Min({j \in i..(Len(s) + 1) : j > Len(s) \/ ~IsSpace(Char(s, j))})
SkipDigits(s, i) == Min({j \in i..(Len(s) + 1) : j > Len(s) \/ ~IsDigit(Char(s, j))})

\* str.strip()
Strip(s) ==
    LET n == Len(s)
        blankTo(i) == \A k \in 1..i : IsSpace(Char(s, k))
        blankFrom(i) == \A k \in i..n : IsSpace(Char(s, k))
    IN  IF blankTo(n) THEN ""
        ELSE SubSeq(s, CHOOSE i \in 1..n : ~IsSpace(Char(s, i)) /\ blankTo(i - 1),
                       CHOOSE j \in 1..n : ~IsSpace(Char(s, j)) /\ blankFrom(j + 1))

\* int() of a string of decimal digits
ParseInt(d) ==
    LET digit(i) == (CHOOSE k \in DOMAIN Digits : Digits[k] = Char(d, i)) - 1
        val[i \in 0..Len(d)] == IF i = 0 THEN 0 ELSE 10 * val[i - 1] + digit(i)
    IN  val[Len(d)]

\* Every substring of t:  p in t  is  p \in Substrings(t)
Substrings(t) == {""} \cup UNION {{SubSeq(t, i, j) : j \in i..Len(t)} : i \in 1..Len(t)}

\* A text lower-cased, with its substrings.  Every matching function of the
\* source lower-cases its argument first, and lower-casing twice changes
\* nothing, so the functions below take the text in this form.
Lowered(txt) == LET t == Lower(txt) IN [t |-> t, subs |-> Substrings(t)]

\* Python's  p in text
Has(lt, p) == p \in lt.subs

-----------------------------------------------------------------------------
(* Calendar: datetime's ordinals *)

DaysBeforeMonth == <<0, 31, 59, 90, 120, 151, 181, 212, 243, 273, 304, 334>>

\* datetime._ord2ymd, year and month
YearMonth(ordinal) ==
    LET n0   == ordinal - 1
        n400 == n0 \div 146097
        r400 == n0 % 146097
        n100 == r400 \div 36524
        r100 == r400 % 36524
        n4   == r100 \div 1461
        r4   == r100 % 1461
        n1   == r4 \div 365
        n    == r4 % 365
        y    == n400 * 400 + 1 + n100 * 100 + n4 * 4 + n1
        leap == n1 = 3 /\ (n4 # 24 \/ n100 = 3)
        m0   == (n + 50) \div 32
        prec == DaysBeforeMonth[m0] + (IF m0 > 2 /\ leap THEN 1 ELSE 0)
    IN  IF n1 = 4 \/ n100 = 4
        THEN [year |-> y - 1, month |-> 12]
        ELSE [year |-> y, month |-> IF prec > n THEN m0 - 1 ELSE m0]

\* strftime("%Y-%m")
FormatYearMonth(ym) ==
    ToString(ym.year) \o "-" \o (IF ym.month < 10 THEN "0" ELSE "") \o ToString(ym.month)

MaxTimedeltaDays == 999999999

-----------------------------------------------------------------------------
(* ai_parser.detect_period *)

\* re.search(r"since\s*(\d{4})", t) matches at i
SinceAt(t, i) ==
    /\ StartsAt(t, i, "since")
    /\ LET j == SkipSpaces(t, i + 5)
       IN  j + 3 <= Len(t) /\ \A k \in j..(j + 3) : IsDigit(Char(t, k))

SinceGroup(t, i) == LET j == SkipSpaces(t, i + 5) IN SubSeq(t, j, j + 3)

\* re.search(r"last\s*(\d+)\s*<unit>", t) matches at i
LastAt(t, i, unit) ==
    /\ StartsAt(t, i, "last")
    /\ LET j == SkipSpaces(t, i + 4)
           k == SkipDigits(t, j)
       IN  k > j /\ StartsAt(t, SkipSpaces(t, k), unit)

LastGroup(t, i) == LET j == SkipSpaces(t, i + 4) IN SubSeq(t, j, SkipDigits(t, j) - 1)

Positions(t) == 1..Len(t)

\* today - timedelta(days=d), formatted; OverflowError outside datetime's range
StartBefore(now, d) ==
    IF d > MaxTimedeltaDays \/ now - d < 1
    THEN [kind |-> "raise", exc |-> "OverflowError"]
    ELSE [kind |-> "ok", val |-> [startPeriod |-> FormatYearMonth(YearMonth(now - d))]]

\* detect_period with the "last N" patterns tried before "since"
PeriodFromLastFirst(t, now, since, years, months) ==
    IF years # {}
    THEN StartBefore(now, ParseInt(LastGroup(t, Min(years))) * 365)
    ELSE IF months # {}
    THEN StartBefore(now, ParseInt(LastGroup(t, Min(months))) * 30)
    ELSE IF since # {}
    THEN [kind |-> "ok", val |-> [startPeriod |-> SinceGroup(t, Min(since)) \o "-01"]]
    ELSE StartBefore(now, 5 * 365)

\* Lines 60-67, given where each pattern matches
PeriodFrom(t, now, since, years, months) ==
    IF since # {}
    THEN [kind |-> "ok", val |-> [startPeriod |-> SinceGroup(t, Min(since)) \o "-01"]]
    ELSE IF years # {}
    THEN StartBefore(now, ParseInt(LastGroup(t, Min(years))) * 365)
    ELSE IF months # {}
    THEN StartBefore(now, ParseInt(LastGroup(t, Min(months))) * 30)
    ELSE StartBefore(now, 5 * 365)

detect_period(lt, now) ==
    Only({ PeriodFrom(lt.t, now, since,
                      {i \in lasts : LastAt(lt.t, i, "year")},
                      {i \in lasts : LastAt(lt.t, i, "month")}) :
           since \in {IF Has(lt, "since")
                      THEN {i \in Positions(lt.t) : SinceAt(lt.t, i)} ELSE {}},
           lasts \in {IF Has(lt, "last")
                      THEN {i \in Positions(lt.t) : StartsAt(lt.t, i, "last")} ELSE {}} })

-----------------------------------------------------------------------------
(* Python dictionaries *)

\* d[k] = v
With(d, k, v) == (k :> v) @@ d

\* The numbers of S in ascending order
Ascending(S) ==
    [n \in 1..Cardinality(S) |-> CHOOSE x \in S : Cardinality({y \in S : y < x}) = n - 1]

\* The items of a dict literal, in iteration order: a repeated key keeps the
\* place of its first occurrence and takes the value of its last one.
DictItems(pairs) ==
    LET firsts == {i \in 1..Len(pairs) : \A j \in 1..(i - 1) : pairs[j][1] # pairs[i][1]}
        lastOf(i) == CHOOSE j \in 1..Len(pairs) :
                        /\ pairs[j][1] = pairs[i][1]
                        /\ \A k \in (j + 1)..Len(pairs) : pairs[k][1] # pairs[i][1]
        order == Ascending(firsts)
    IN  [n \in 1..Len(order) |-> <<pairs[order[n]][1], pairs[lastOf(order[n])][2]>>]

\* template.format(pair=code)
FormatPair(template, code) ==
    LET at == {i \in 1..Len(template) : StartsAt(template, i, "{pair}")}
    IN  IF at = {} THEN template
        ELSE SubSeq(template, 1, Min(at) - 1) \o code
                \o SubSeq(template, Min(at) + 6, Len(template))

-----------------------------------------------------------------------------
(* ai_parser: country codes, catalog, synonyms *)

COUNTRY_CODES == DictItems(<<
    <<"euro area", "EA">>, <<"eurozone", "EA">>, <<"european union", "EU27_2020">>,
    <<"italy", "IT">>, <<"france", "FR">>, <<"germany", "DE">>, <<"spain", "ES">>,
    <<"portugal", "PT">>, <<"belgium", "BE">>, <<"netherlands", "NL">>, <<"austria", "AT">>,
    <<"greece", "GR">>, <<"ireland", "IE">>, <<"finland", "FI">>, <<"luxembourg", "LU">>,
    <<"denmark", "DK">>, <<"sweden", "SE">>, <<"poland", "PL">>, <<"romania", "RO">>,
    <<"czech", "CZ">>, <<"czechia", "CZ">>, <<"hungary", "HU">>, <<"slovakia", "SK">>,
    <<"slovenia", "SI">>, <<"croatia", "HR">>, <<"bulgaria", "BG">> >>)

detect_countries(lt) ==
    LET hits == {i \in 1..Len(COUNTRY_CODES) : Has(lt, COUNTRY_CODES[i][1])}
    IN  IF hits # {} THEN COUNTRY_CODES[Min(hits)][2] ELSE "EA"

INDICATOR_CATALOG ==
    [gdp_real |->
        [provider |-> "ECB", flow |-> "MNA",
         series |-> "Q.N.I8.W2.S1.S1.B.B1GQ._Z._Z._Z.EUR.LR.N", freq |-> "Q",
         label |-> "Real GDP (chain-linked)"],
     gdp_per_capita |->
        [provider |-> "ECB", flow |-> "MNA",
         series |-> "A.N.I9.W2.S1.S1.B.B1GQ._Z._Z._Z.PE_R_POP.V._Z", freq |-> "A",
         label |-> "GDP per capita (Purchasing Power Standards, Euro area)"],
     inflation |->
        [provider |-> "ECB", flow |-> "ICP", series |-> "M.U2.N.000000.4.ANR",
         freq |-> "M", label |-> "Inflation (HICP YoY)"],
     unemployment |->
        [provider |-> "Eurostat", dataset |-> "une_rt_m",
         params |-> [sex |-> "T", age |-> "Y25-74", unit |-> "PC_ACT", s_adj |-> "SA"],
         label |-> "Unemployment rate"],
     employment |->
        [provider |-> "Eurostat", dataset |-> "lfsi_emp_a",
         params |-> [indic_em |-> "EMP_LFS", sex |-> "T", age |-> "Y20-64", unit |-> "PC_POP"],
         label |-> "Employment rate"],
     poverty_rate |->
        [provider |-> "Eurostat", dataset |-> "ilc_peps01",
         params |-> [unit |-> "PC", sex |-> "T", age |-> "TOTAL"],
         label |-> "Population at risk of poverty or social exclusion (% of total)"],
     debt_gdp |->
        [provider |-> "Eurostat", dataset |-> "gov_10q_ggdebt",
         params |-> [sector |-> "S13", unit |-> "PC_GDP"],
         label |-> "Government debt (% GDP)"],
     industrial_production |->
        [provider |-> "Eurostat", dataset |-> "sts_inpr_m",
         params |-> [indic_bt |-> "PRD", nace_r2 |-> "B-D", s_adj |-> "SCA", unit |-> "I15"],
         label |-> "Industrial production index"],
     deposit_rate |->
        [provider |-> "ECB", flow |-> "FM", series |-> "D.U2.EUR.4F.KR.DFR.LEV",
         freq |-> "D", label |-> "Deposit Facility Rate"],
     refinancing_rate |->
        [provider |-> "ECB", flow |-> "FM", series |-> "B.U2.EUR.4F.KR.MRR_FR.LEV",
         freq |-> "D", label |-> "Main Refinancing Operations - Fixed Rate Tenders"],
     borrowing_households |->
        [provider |-> "ECB", flow |-> "MIR", series |-> "M.U2.B.A2C.AM.R.A.2250.EUR.N",
         freq |-> "M", label |-> "Cost of borrowing for households (house purchase)"],
     yield_curve_10y |->
        [provider |-> "ECB", flow |-> "YC", series |-> "B.U2.EUR.4F.G_N_A.SV_C_YM.SR_10Y",
         freq |-> "D", label |-> "Yield curve 10-year AAA government bond"],
     money_supply |->
        [provider |-> "ECB", flow |-> "BSI", series |-> "M.U2.Y.V.M30.X.1.U2.2300.Z01.E",
         freq |-> "M", label |-> "Money supply (M3)"],
     loans_households |->
        [provider |-> "ECB", flow |-> "BSI", series |-> "M.U2.N.A.A20.A.1.U2.2240.Z01.E",
         freq |-> "M", label |-> "Loans to households"],
     exchange_rate |->
        [provider |-> "ECB", flow |-> "EXR", pattern |-> "D.{pair}.EUR.SP00.A",
         freq |-> "D", label |-> "Exchange rate EUR/{pair}"],
     hours_worked |->
        [provider |-> "ECB", flow |-> "ENA",
         series |-> "Q.Y.I8.W2.S1.S1._Z.EMP._Z._T._Z.HW._Z.N", freq |-> "Q",
         label |-> "Hours worked"]]

SYNONYMS == DictItems(<<
    <<"gdp_real", {"real gdp", "volume gdp", "gdp constant prices", "economic growth"}>>,
    <<"gdp_per_capita", {"gdp per capita", "income per person", "purchasing power",
                         "pps gdp", "per capita gdp"}>>,
    <<"inflation", {"inflation", "hicp", "prices", "consumer prices", "price level"}>>,
    <<"unemployment", {"unemployment", "jobless", "jobless rate"}>>,
    <<"employment", {"employment", "jobs", "workforce", "employment rate"}>>,
    <<"poverty_rate", {"poverty", "income inequality", "social exclusion",
                       "at risk of poverty"}>>,
    <<"debt_gdp", {"public debt", "government debt", "debt to gdp", "fiscal debt"}>>,
    <<"industrial_production", {"industrial production", "industry output",
                                "manufacturing index", "industrial index"}>>,
    <<"hours_worked", {"hours worked", "working hours", "labour hours"}>>,
    <<"deposit_rate", {"deposit rate", "ecb deposit", "deposit facility", "facility rate"}>>,
    <<"refinancing_rate", {"refinancing rate", "main refinancing", "refi rate", "ecb tender",
                           "mro", "refinancing operations"}>>,
    <<"borrowing_households", {"cost of borrowing", "household borrowing", "mortgage rate",
                               "home loan", "housing loan", "loan rate"}>>,
    <<"yield_curve_10y", {"10-year yield", "bond yield", "government bond", "long-term rate",
                          "sovereign yield", "yield curve"}>>,
    <<"money_supply", {"money supply", "m3", "liquidity", "monetary aggregate"}>>,
    <<"loans_households", {"loans to households", "household loans", "consumer credit",
                           "personal loans", "mortgages"}>>,
    <<"exchange_rate", {"exchange rate", "eur to", "eur/", "eur ", "eurusd", "eur usd",
                        "euro dollar", "euro pound", "euro yen", "currency", "forex", "fx",
                        "eur gbp", "eur jpy"}>> >>)

\* The keys whose synonym list has a phrase in the text, in table order
match_indicator(lt) ==
    Only({ [n \in 1..Len(order) |-> SYNONYMS[order[n]][1]] :
           order \in {Ascending({i \in 1..Len(SYNONYMS) :
                                    \E s \in SYNONYMS[i][2] : Has(lt, s)})} })

\* What the chat-completion call can do: fail, or answer with some content
LLMResponses ==
    { [kind |-> "error", content |-> ""],
      [kind |-> "content", content |-> " Unemployment\n"],
      [kind |-> "content", content |-> "exchange_rate"],
      [kind |-> "content", content |-> "I cannot tell"] }

NoKey == "None"

\* A classifier that takes the answer as the key without looking it up
LlmDetectUnchecked(useLLM, resp) ==
    IF ~useLLM \/ resp.kind = "error" THEN NoKey ELSE Lower(Strip(resp.content))

\* The classifier's answer for a response; NoKey is Python's None
llm_detect_category(useLLM, resp) ==
    IF ~useLLM THEN NoKey
    ELSE IF resp.kind = "error" THEN NoKey
    ELSE Only({ IF \E i \in 1..Len(SYNONYMS) : Has(o, SYNONYMS[i][1])
                THEN SYNONYMS[Min({i \in 1..Len(SYNONYMS) : Has(o, SYNONYMS[i][1])})][1]
                ELSE NoKey :
                o \in {Lowered(Strip(resp.content))} })

-----------------------------------------------------------------------------
(* ai_parser.interpret_query_with_ai *)

fx_aliases == DictItems(<<
    <<"usd", "USD">>, <<"dollar", "USD">>,
    <<"gbp", "GBP">>, <<"pound", "GBP">>,
    <<"jpy", "JPY">>, <<"yen", "JPY">>,
    <<"chf", "CHF">>, <<"franc", "CHF">>,
    <<"pln", "PLN">>, <<"zloty", "PLN">>,
    <<"try", "TRY">>, <<"lira", "TRY">>,
    <<"sek", "SEK">>, <<"krone", "SEK">>,
    <<"nok", "NOK">>, <<"krone", "NOK">>,
    <<"huf", "HUF">>, <<"forint", "HUF">>,
    <<"cny", "CNY">>, <<"yuan", "CNY">> >>)

IsFxSep(c) == c = "/" \/ IsSpace(c) \/ c = "-"

SkipFxSeps(s, i) == Min({j \in i..(Len(s) + 1) : j > Len(s) \/ ~IsFxSep(Char(s, j))})

\* Where an alias has to start for (eur|euro)[/\s-]* to end just before it
FxTails(lt) ==
    IF ~Has(lt, "eur") THEN {}
    ELSE LET t == lt.t
             eur == {i \in Positions(t) : StartsAt(t, i, "eur")}
         IN  {SkipFxSeps(t, i + 3) : i \in eur}
                \cup {SkipFxSeps(t, i + 4) : i \in {k \in eur : StartsAt(t, k, "euro")}}

\* re.search(rf"(eur|euro)[/\s-]*{alias}", text)
FxSearch(lt, alias) == Has(lt, alias) /\ \E j \in FxTails(lt) : StartsAt(lt.t, j, alias)

Raise(exc, cs) == [kind |-> "raise", exc |-> exc, calls |-> cs]
Return(plan, cs) == [kind |-> "plan", plan |-> plan, calls |-> cs]

\* Lines 409-421: the plan of a catalog key
PlanOf(key, country, params, cs) ==
    IF key \notin DOMAIN INDICATOR_CATALOG THEN Raise("KeyError", cs)
    ELSE LET meta == INDICATOR_CATALOG[key]
         IN  IF meta.provider = "ECB"
             THEN IF {"flow", "series", "freq", "label"} \subseteq DOMAIN meta
                  THEN Return([provider |-> "ECB", flow |-> meta.flow,
                               series |-> meta.series, freq |-> meta.freq,
                               indicator |-> meta.label, params |-> params], cs)
                  ELSE Raise("KeyError", cs)
             ELSE IF meta.provider = "Eurostat"
             THEN IF {"dataset", "params", "label"} \subseteq DOMAIN meta
                  THEN Return([provider |-> "Eurostat", dataset |-> meta.dataset,
                               params |-> With(meta.params, "geo", country),
                               indicator |-> meta.label], cs)
                  ELSE Raise("KeyError", cs)
             ELSE Return([provider |-> "ECB", flow |-> "ICP",
                          series |-> "M.U2.N.000000.4.ANR", freq |-> "M",
                          indicator |-> "Inflation (Euro area, default)",
                          params |-> params], cs)

\* Lines 397-407: synonyms, then the classifier if there is one, then inflation;
\* found is what match_indicator returned, cat what the classifier would
ResolveIndicator(found, cat, country, params, useLLM, cs0) ==
    LET ask == found = <<>> /\ useLLM
        cs  == cs0 \o <<"match_indicator">>
                   \o (IF ask THEN <<"llm_detect_category">> ELSE <<>>)
        key == IF found # <<>> THEN found[1]
               ELSE IF ask /\ cat # NoKey THEN cat
               ELSE "inflation"
    IN  PlanOf(key, country, params, cs)

\* Lines 385-395: the plan of the first alias the FX pattern finds
FxPlan(code, params, cs) ==
    LET meta == INDICATOR_CATALOG["exchange_rate"]
    IN  Return([provider |-> "ECB", flow |-> meta.flow,
                series |-> FormatPair(meta.pattern, code), freq |-> meta.freq,
                indicator |-> FormatPair(meta.label, code), params |-> params], cs)

\* The aliases of fx_aliases the FX pattern finds, by their place in the table
FxHits(lt) == {i \in 1..Len(fx_aliases) : FxSearch(lt, fx_aliases[i][1])}

\* The body of interpret_query_with_ai, on the text lower-cased at line 366
Interpret(lt, now, useLLM, resp) ==
    Only({ IF period.kind = "raise"
           THEN Raise(period.exc, <<"detect_countries", "detect_period">>)
           ELSE IF fx # {}
           THEN FxPlan(fx_aliases[Min(fx)][2], period.val,
                       <<"detect_countries", "detect_period">>)
           ELSE ResolveIndicator(found, cat, country, period.val, useLLM,
                                 <<"detect_countries", "detect_period">>) :
           country \in {detect_countries(lt)},
           period  \in {detect_period(lt, now)},
           fx      \in {FxHits(lt)},
           found   \in {match_indicator(lt)},
           cat     \in {llm_detect_category(useLLM, resp)} })

interpret_query_with_ai(user_text, now, useLLM, resp) ==
    Only({Interpret(lt, now, useLLM, resp) : lt \in {Lowered(user_text)}})

-----------------------------------------------------------------------------
(* llm_router *)

\* A \b at both ends of the all-letter word w found at i
WordAt(t, i, w) ==
    /\ StartsAt(t, i, w)
    /\ i = 1 \/ ~IsWordChar(Char(t, i - 1))
    /\ i + Len(w) > Len(t) \/ ~IsWordChar(Char(t, i + Len(w)))

\* \btrend: a \b before only
WordStartAt(t, i, w) == StartsAt(t, i, w) /\ (i = 1 \/ ~IsWordChar(Char(t, i - 1)))

\* decline\b: a \b after only
WordEndAt(t, i, w) ==
    StartsAt(t, i, w) /\ (i + Len(w) > Len(t) \/ ~IsWordChar(Char(t, i + Len(w))))

detect_chart_mode(lt) ==
    LET t == lt.t
    IN  IF \E w \in {"compare", "vs", "versus", "between", "and"} :
              Has(lt, w) /\ \E i \in Positions(t) : WordAt(t, i, w)
        THEN "compare"
        ELSE IF \/ Has(lt, "trend") /\ \E i \in Positions(t) : WordStartAt(t, i, "trend")
                \/ \E w \in {"evolution", "change", "growth", "rise", "increase", "fall"} :
                       Has(lt, w)
                \/ Has(lt, "decline") /\ \E i \in Positions(t) : WordEndAt(t, i, "decline")
        THEN "trend"
        ELSE "single"

detect_analysis_type(lt) ==
    IF \E k \in {"growth", "increase", "rise", "expansion", "improve"} : Has(lt, k)
    THEN "growth"
    ELSE IF \E k \in {"decline", "drop", "decrease", "fall", "slowdown", "recession"} :
                Has(lt, k)
    THEN "decline"
    ELSE IF \E k \in {"compare", "vs", "versus", "difference"} : Has(lt, k)
    THEN "comparison"
    ELSE "neutral"

RouterCountries ==
    { "italy", "france", "germany", "spain", "portugal", "belgium",
      "netherlands", "austria", "greece", "ireland", "finland", "luxembourg",
      "poland", "sweden", "denmark", "romania", "hungary", "slovakia",
      "slovenia", "croatia", "bulgaria", "euro area", "eurozone" }

\* The names found; the list built from set() has them in any order
detect_countries_in_text(lt) == {c \in RouterCountries : Has(lt, c)}

Orderings(S) ==
    {q \in [1..Cardinality(S) -> S] : \A i, j \in DOMAIN q : i # j => q[i] # q[j]}

\* A default plan with nothing in its params
DefaultPlanNoParams(chart_mode, analysis_type) ==
    [provider |-> "ECB", flow |-> "ICP", series |-> "M.U2.N.000000.4.ANR", freq |-> "M",
     indicator |-> "Inflation (Euro area, default)", params |-> <<>>,
     chart_mode |-> chart_mode, analysis_type |-> analysis_type, compare_mode |-> "none"]

_default_plan(chart_mode, analysis_type) ==
    [provider |-> "ECB", flow |-> "ICP", series |-> "M.U2.N.000000.4.ANR", freq |-> "M",
     indicator |-> "Inflation (Euro area, default)",
     params |-> [lastNObservations |-> 12],
     chart_mode |-> chart_mode, analysis_type |-> analysis_type, compare_mode |-> "none"]

\* Lines 85-92: the annotations written into the interpreter's plan
Annotate(plan, chart_mode, analysis_type, countries) ==
    IF Len(countries) > 1
    THEN ("countries" :> countries) @@ ("compare_mode" :> "multi-country")
            @@ ("analysis_type" :> analysis_type) @@ ("chart_mode" :> chart_mode) @@ plan
    ELSE ("analysis_type" :> analysis_type) @@ ("chart_mode" :> chart_mode) @@ plan

RouterCalls ==
    <<"detect_chart_mode", "detect_analysis_type", "detect_countries_in_text",
      "interpret_query_with_ai">>

\* A router whose fallback forgets what the detectors found
RouteFixedFallback(lt, now, useLLM, resp, countries) ==
    Only({ IF qp.kind = "plan"
           THEN Return(Annotate(qp.plan, cm, at, countries), RouterCalls \o qp.calls)
           ELSE Return(_default_plan("single", "neutral"),
                       (RouterCalls \o qp.calls) \o <<"_default_plan">>) :
           cm \in {detect_chart_mode(lt)},
           at \in {detect_analysis_type(lt)},
           qp \in {Interpret(lt, now, useLLM, resp)} })

\* Lines 68-106, on the stripped text; countries is the list
\* detect_countries_in_text returned, in the order it came
Route(lt, now, useLLM, resp, countries) ==
    Only({ IF qp.kind = "plan"
           THEN Return(Annotate(qp.plan, cm, at, countries), RouterCalls \o qp.calls)
           ELSE Return(_default_plan(cm, at),
                       (RouterCalls \o qp.calls) \o <<"_default_plan">>) :
           cm \in {detect_chart_mode(lt)},
           at \in {detect_analysis_type(lt)},
           qp \in {Interpret(lt, now, useLLM, resp)} })

\* The emptiness test without its strip()
IsBlankNoStrip(user_text) == user_text = ""

\* Line 64:  not user_text or not user_text.strip()
IsBlank(user_text) == user_text = "" \/ Strip(user_text) = ""

parse_message_to_query(user_text, now, useLLM, resp, countries) ==
    IF IsBlank(user_text)
    THEN Return(_default_plan("single", "neutral"), <<"_default_plan">>)
    ELSE Only({Route(lt, now, useLLM, resp, countries) : lt \in {Lowered(Strip(user_text))}})

-----------------------------------------------------------------------------
(* Tables *)

\* A DataFrame: its column names, its rows (one record per row, in row
\* order) and its index (the label of each row).  An observation's time is a
\* period number, 0 for a text that does not parse as a date; its value is a
\* numeral, "n/a" for a text that is no number.

\* pd.DataFrame()
EmptyTable == [columns |-> <<>>, rows |-> <<>>, index |-> <<>>]

\* The positions of S in obs by ascending time, the earlier position first
\* among equal times: dropna(...).sort_values(...)
ByTime(obs, S) ==
    [n \in 1..Cardinality(S) |->
        CHOOSE i \in S :
            Cardinality({j \in S : \/ obs[j].time < obs[i].time
                                   \/ obs[j].time = obs[i].time /\ j < i}) = n - 1]

\* The index labels of the rows taken from those positions
Labels(order) == [n \in DOMAIN order |-> order[n] - 1]

\* The RangeIndex a file read gives
RangeIndex(n) == [i \in 1..n |-> i - 1]

\* to_csv(index=False) / to_parquet(index=False): the index is not written
Written(df) == [columns |-> df.columns, rows |-> df.rows]

\* pd.read_csv / pd.read_parquet of such a file
ReadBack(file) ==
    [columns |-> file.columns, rows |-> file.rows, index |-> RangeIndex(Len(file.rows))]

\* str.split(sep) for a one-character sep
Split(s, sep) ==
    LET cuts == {0, Len(s) + 1} \cup {i \in 1..Len(s) : Char(s, i) = sep}
        at   == Ascending(cuts)
    IN  [n \in 1..(Len(at) - 1) |-> SubSeq(s, at[n] + 1, at[n + 1] - 1)]

\* str.replace(a, b) for one-character a
ReplaceChar(s, a, b) ==
    LET r[i \in 0..Len(s)] ==
            IF i = 0 THEN "" ELSE r[i - 1] \o (IF Char(s, i) = a THEN b ELSE Char(s, i))
    IN  r[Len(s)]

\* What a fetch hands back: the table or the exception, the files it leaves,
\* the network requests it made, and the cache file it answered from, if any
\* how: "hit" (read from the cache), "stored" (fetched and written to the
\* cache) or "fetched" (fetched, nothing written)
Fetched(table, fs, network, path, how) ==
    [kind |-> "table", table |-> table, exc |-> "", files |-> fs,
     network |-> network, path |-> path, how |-> how]

Raised(exc, fs, network, path) ==
    [kind |-> "raise", table |-> EmptyTable, exc |-> exc, files |-> fs,
     network |-> network, path |-> path, how |-> "fetched"]

-----------------------------------------------------------------------------
(* fetchers/ebc_adapter *)

cache_file(flow, key) == "data/cache/" \o ReplaceChar(flow \o "." \o key, ".", "_") \o ".csv"

\* str.isupper(): a cased character, and no lower-case one
IsUpper(s) ==
    /\ \E i \in 1..Len(s) : Char(s, i) \in DOMAIN LowerMap
    /\ \A i \in 1..Len(s) : \A u \in DOMAIN LowerMap : LowerMap[u] # Char(s, i)

\* Lines 128-138.  The observations have a member area when the frame has a
\* REF_AREA column: the first row's value is then the country of the frame.
_infer_country(obs, key) ==
    LET parts == Split(key, ".")
        two   == {n \in DOMAIN parts : Len(parts[n]) = 2 /\ IsUpper(parts[n])}
    IN  IF obs # <<>> /\ "area" \in DOMAIN obs[1] THEN obs[1].area
        ELSE IF two # {} THEN parts[Min(two)]
        ELSE "U2"

_normalize_ecb_df(obs, key, flow) ==
    LET order == ByTime(obs, {i \in DOMAIN obs : obs[i].time # 0 /\ obs[i].value # "n/a"})
    IN  [columns |-> <<"TIME_PERIOD", "OBS_VALUE", "COUNTRY", "FLOW">>,
         rows    |-> [n \in DOMAIN order |->
                        [TIME_PERIOD |-> obs[order[n]].time,
                         OBS_VALUE |-> obs[order[n]].value,
                         COUNTRY |-> _infer_country(obs, key), FLOW |-> flow]],
         index   |-> Labels(order)]

\* Lines 47-54: the file exists and reads
EbcCached(req, fs, readOk) ==
    req.cache /\ cache_file(req.flow, req.key) \in DOMAIN fs /\ readOk

\* fetch_ecb_data(flow, key, params, cache); lib is what ecbdata.get_series
\* does, readOk and writeOk whether the file reads and writes
ebc_fetch_ecb_data(req, fs, lib, readOk, writeOk) ==
    LET path == cache_file(req.flow, req.key)
    IN  IF EbcCached(req, fs, readOk)
        THEN Fetched(ReadBack(fs[path]), fs, 0, path, "hit")
        ELSE IF lib.kind = "raise" THEN Fetched(EmptyTable, fs, 1, path, "fetched")
        ELSE IF lib.kind = "columns" THEN Fetched(EmptyTable, fs, 1, path, "fetched")
        ELSE IF lib.obs = <<>>
        \* _fetch_ecb_csv: a second request, and no frame from it
        THEN Fetched(EmptyTable, fs, 2, path, "fetched")
        ELSE IF ~req.cache
        THEN Fetched(_normalize_ecb_df(lib.obs, req.key, req.flow), fs, 1, path, "fetched")
        ELSE IF ~writeOk THEN Fetched(EmptyTable, fs, 1, path, "fetched")
        ELSE Only({Fetched(df, (path :> Written(df)) @@ fs, 1, path, "stored") :
                   df \in {_normalize_ecb_df(lib.obs, req.key, req.flow)}})

-----------------------------------------------------------------------------
(* fetchers/eurostat_adapter *)

years_back == 5

\* The keys a query string can have, as sorted() orders them
SortedKeys == <<"format", "geo", "lang", "sinceTimePeriod", "time">>

\* json.dumps(qs, sort_keys=True) of a mapping of strings
JsonDumps(qs) ==
    LET ks == Ascending({n \in DOMAIN SortedKeys : SortedKeys[n] \in DOMAIN qs})
        item(n) == "\"" \o SortedKeys[ks[n]] \o "\": \"" \o qs[SortedKeys[ks[n]]] \o "\""
        js[n \in 0..Len(ks)] ==
            IF n = 0 THEN "" ELSE js[n - 1] \o (IF n > 1 THEN ", " ELSE "") \o item(n)
    IN  "{" \o js[Len(ks)] \o "}"

\* hashlib.md5(...).hexdigest(), taken as free of collisions
Md5(s) == "md5(" \o s \o ")"

_cache_key(dataset, params) == Md5(dataset \o JsonDumps(params))

CachePath(key) == "_cache_eurostat/" \o key \o ".parquet"

\* Lines 101-108: the query string
QueryString(params, now_year) ==
    LET qs == params @@ [format |-> "JSON", lang |-> "EN"]
    IN  IF "time" \notin DOMAIN qs /\ "sinceTimePeriod" \notin DOMAIN qs
        THEN ("sinceTimePeriod" :> ToString(now_year - years_back)) @@ qs
        ELSE qs

\* A lookup that finds nothing
ReadCacheNever(key, fs, readOk) == FALSE

\* _read_cache(key) is not None
_read_cache(key, fs, readOk) == CachePath(key) \in DOMAIN fs /\ readOk

\* Lines 131-160 for a response with a geo dimension and observations
Tidy(obs) ==
    LET order == ByTime(obs, {i \in DOMAIN obs : obs[i].time # 0})
    IN  [columns |-> <<"date", "COUNTRY", "OBS_VALUE">>,
         rows    |-> [n \in DOMAIN order |->
                        [date |-> obs[order[n]].time, COUNTRY |-> obs[order[n]].geo,
                         OBS_VALUE |-> obs[order[n]].value]],
         index   |-> Labels(order)]

\* fetch_eurostat_data(dataset, params); resp is what the API does
fetch_eurostat_data(req, fs, now_year, resp, readOk, writeOk) ==
    LET cache_id == _cache_key(req.dataset, QueryString(req.params, now_year))
        path == CachePath(cache_id)
    IN  IF _read_cache(cache_id, fs, readOk)
        THEN Fetched(ReadBack(fs[path]), fs, 0, path, "hit")
        ELSE IF resp.kind \in {"status", "timeout", "json"}
        THEN Fetched(EmptyTable, fs, 1, path, "fetched")
        ELSE IF resp.kind = "value" THEN Fetched(EmptyTable, fs, 1, path, "fetched")
        \* _expand_sdmx_json without "dimension", or of no observation; a
        \* frame without the geo column at line 160
        ELSE IF resp.kind \in {"dimension", "geo"} \/ resp.obs = <<>>
        THEN Raised("KeyError", fs, 1, path)
        \* line 163, after _write_cache: df.get('freq', ['?'])[0] looks up the
        \* row labelled 0, which is gone when the first row's time did not parse
        ELSE IF resp.obs[1].time = 0
        THEN IF ~writeOk THEN Raised("KeyError", fs, 1, path)
             ELSE [Raised("KeyError", (path :> Written(Tidy(resp.obs))) @@ fs, 1, path)
                      EXCEPT !.how = "stored"]
        ELSE IF ~writeOk THEN Fetched(Tidy(resp.obs), fs, 1, path, "fetched")
        ELSE Only({Fetched(tidy, (path :> Written(tidy)) @@ fs, 1, path, "stored") :
                   tidy \in {Tidy(resp.obs)}})

-----------------------------------------------------------------------------
(* fetchers/ecb_adapter *)

\* Lines 65-80: the KEY column's third segment, else the '+'-separated names
\* of the request key's second segment, else "U2"
EcbCountries(key, resp) ==
    IF resp.KEY # "" THEN <<Split(resp.KEY, ".")[3]>>
    ELSE IF Len(Split(key, ".")) >= 2 THEN Split(Split(key, ".")[2], "+")
    ELSE <<"U2">>

\* Lines 72-78: the frame once per name (pd.concat, ignore_index=True)
PerCountry(obs, cs) ==
    [p \in 1..(Len(obs) * Len(cs)) |->
        [time    |-> obs[((p - 1) % Len(obs)) + 1].time,
         value   |-> obs[((p - 1) % Len(obs)) + 1].value,
         country |-> cs[((p - 1) \div Len(obs)) + 1]]]

\* fetch_ecb_data(flow, key, params): no cache
ecb_fetch_ecb_data(req, fs, resp) ==
    IF resp.kind = "timeout" THEN Raised("Timeout", fs, 1, "")
    ELSE IF resp.kind = "status" THEN Raised("Exception", fs, 1, "")
    ELSE IF resp.kind = "columns" THEN Fetched(EmptyTable, fs, 1, "", "fetched")
    ELSE LET obs == PerCountry(resp.obs, EcbCountries(req.key, resp))
             order == ByTime(obs, {i \in DOMAIN obs :
                                      obs[i].time # 0 /\ obs[i].value # "n/a"})
         IN  Fetched([columns |-> <<"TIME_PERIOD", "OBS_VALUE", "COUNTRY">>,
                      rows    |-> [n \in DOMAIN order |->
                                     [TIME_PERIOD |-> obs[order[n]].time,
                                      OBS_VALUE |-> obs[order[n]].value,
                                      COUNTRY |-> obs[order[n]].country]],
                      index   |-> Labels(order)], fs, 1, "", "fetched")

-----------------------------------------------------------------------------
(* ai_parser.fetch_ecb *)

\* _parse_sdmx_json: dropna().sort_values("time")
_parse_sdmx_json(obs) ==
    LET order == ByTime(obs, {i \in DOMAIN obs : obs[i].time # 0 /\ obs[i].value # "n/a"})
    IN  [columns |-> <<"time", "value">>,
         rows    |-> [n \in DOMAIN order |->
                        [time |-> obs[order[n]].time, value |-> obs[order[n]].value]],
         index   |-> Labels(order)]

\* _parse_ecb_csv: dropna(), rows left in file order
_parse_ecb_csv(obs) ==
    LET keep == Ascending({i \in DOMAIN obs : obs[i].time # 0 /\ obs[i].value # "n/a"})
    IN  [columns |-> <<"time", "value">>,
         rows    |-> [n \in DOMAIN keep |->
                        [time |-> obs[keep[n]].time, value |-> obs[keep[n]].value]],
         index   |-> Labels(keep)]

\* A result with the requests the call sent, in the order it sent them, and
\* what the upstream did
Sent(r, log, json, csv) ==
    ("sent" :> log) @@ ("json" :> json.kind) @@ ("csv" :> csv.kind) @@ r

\* A fetch_ecb that asks for sdmx-json once more when both formats failed
FetchEcbRetries(req, fs, json, csv) ==
    IF json.kind = "timeout"
    THEN Sent(Raised("Timeout", fs, 1, ""), <<"sdmx-json">>, json, csv)
    ELSE IF json.kind = "status"
    THEN IF csv.kind = "timeout"
         THEN Sent(Raised("Timeout", fs, 2, ""), <<"sdmx-json", "csvdata">>, json, csv)
         ELSE IF csv.kind = "status"
         THEN Sent(Fetched(EmptyTable, fs, 3, "", "fetched"),
                   <<"sdmx-json", "csvdata", "sdmx-json">>, json, csv)
         ELSE IF csv.kind = "columns"
         THEN Sent(Raised("StopIteration", fs, 2, ""), <<"sdmx-json", "csvdata">>, json, csv)
         ELSE Sent(Fetched(_parse_ecb_csv(csv.obs), fs, 2, "", "fetched"),
                   <<"sdmx-json", "csvdata">>, json, csv)
    ELSE IF json.kind = "columns"
    THEN Sent(Fetched(EmptyTable, fs, 1, "", "fetched"), <<"sdmx-json">>, json, csv)
    ELSE Sent(Fetched(_parse_sdmx_json(json.obs), fs, 1, "", "fetched"),
              <<"sdmx-json">>, json, csv)

\* fetch_ecb(flow, key); json and csv are what the two requests do: a
\* timeout, a non-200 status, a payload that does not parse ("columns"), or
\* observations
fetch_ecb(req, fs, json, csv) ==
    IF json.kind = "timeout"
    THEN Sent(Raised("Timeout", fs, 1, ""), <<"sdmx-json">>, json, csv)
    ELSE IF json.kind = "status"
    THEN IF csv.kind = "timeout"
         THEN Sent(Raised("Timeout", fs, 2, ""), <<"sdmx-json", "csvdata">>, json, csv)
         ELSE IF csv.kind = "status"
         THEN Sent(Fetched(EmptyTable, fs, 2, "", "fetched"),
                   <<"sdmx-json", "csvdata">>, json, csv)
         ELSE IF csv.kind = "columns"
         THEN Sent(Raised("StopIteration", fs, 2, ""), <<"sdmx-json", "csvdata">>, json, csv)
         ELSE Sent(Fetched(_parse_ecb_csv(csv.obs), fs, 2, "", "fetched"),
                   <<"sdmx-json", "csvdata">>, json, csv)
    \* lines 320-325: a payload _parse_sdmx_json cannot read ends the call
    ELSE IF json.kind = "columns"
    THEN Sent(Fetched(EmptyTable, fs, 1, "", "fetched"), <<"sdmx-json">>, json, csv)
    ELSE Sent(Fetched(_parse_sdmx_json(json.obs), fs, 1, "", "fetched"),
              <<"sdmx-json">>, json, csv)

-----------------------------------------------------------------------------
(* Inputs *)

MaxFrags == 2

Vocabulary ==
    { " ", "since 2015", "last 3 years", "last 3000 years", "euro dollar",
      "inflation", "unemployment", "currency", "france", "italy and spain", " vs ",
      "hello" }

\* The messages of the sources' own examples, and a few more
Examples ==
    { "Compare unemployment between France and Italy",
      "Inflation in Italy and France since 2020",
      "Show me euro usd exchange rate last 6 months",
      "EUR/JPY exchange rate",
      "eur-krone last 6 months",
      "ECB deposit rate trend after 2022",
      "Since 2019 or the last 2 months", " \t\n" }

\* The texts made of at most n fragments of the vocabulary
TextsOf(n) ==
    LET upTo[k \in 0..n] ==
            IF k = 0 THEN {""}
            ELSE upTo[k - 1] \cup {s \o w : s \in upTo[k - 1], w \in Vocabulary}
    IN  upTo[n]

Texts == TextsOf(MaxFrags) \cup Examples

\* 2026-11-04 and the leap day 2024-02-29
Todays == {739924, 738945}

-----------------------------------------------------------------------------
(* The requests *)

\* No fetch made yet, on an empty cache
NoFetches ==
    /\ year = YearMonth(today).year
    /\ files = <<>>
    /\ writer = <<>>
    /\ first = <<>>
    /\ last = [kind |-> "none", fetcher |-> "", later |-> FALSE]
    /\ catalog = INDICATOR_CATALOG
    /\ synonyms = SYNONYMS
    /\ prev = [kind |-> "none"]
    /\ disk = <<>>
    /\ pc = <<>>
    /\ off = <<>>
    /\ res = <<>>

Init ==
    /\ text \in Texts
    /\ today \in Todays
    /\ USE_LLM \in BOOLEAN
    /\ op = "none"
    /\ out = [kind |-> "none"]
    /\ calls = <<>>
    /\ NoFetches

\* What the configured client can answer; without a client nothing is asked
Answers == IF USE_LLM THEN LLMResponses ELSE {[kind |-> "error", content |-> ""]}

Result(r) == [x \in DOMAIN r \ {"calls"} |-> r[x]]

Served(name, r) ==
    /\ op' = name
    /\ out' = Result(r)
    /\ calls' = r.calls
    /\ UNCHANGED <<text, today, USE_LLM>>
    /\ UNCHANGED <<fetches, shared>>

CallDetectPeriod ==
    /\ op = "none"
    /\ \E lt \in {Lowered(text)} :
           /\ op' = "detect_period"
           /\ out' = detect_period(lt, today)
           /\ calls' = <<"detect_period">>
           /\ UNCHANGED <<text, today, USE_LLM>>
           /\ UNCHANGED <<fetches, shared>>

CallDetectCountries ==
    /\ op = "none"
    /\ \E lt \in {Lowered(text)} :
           /\ op' = "detect_countries"
           /\ out' = [kind |-> "ok", val |-> detect_countries(lt)]
           /\ calls' = <<"detect_countries">>
           /\ UNCHANGED <<text, today, USE_LLM>>
           /\ UNCHANGED <<fetches, shared>>

\* The outcome r together with what the client answered the classifier,
\* when the call asked it
Heard(r, resp) ==
    [x \in DOMAIN r \cup {"heard"} |->
        IF x # "heard" THEN r[x]
        ELSE IF \E n \in DOMAIN r.calls : r.calls[n] = "llm_detect_category"
             THEN resp
             ELSE [kind |-> "none", content |-> ""]]

CallInterpret ==
    /\ op = "none"
    /\ \E lt \in {Lowered(text)} :
           \E resp \in Answers :
               \E r \in {Heard(Interpret(lt, today, USE_LLM, resp), resp)} :
                   Served("interpret", r)

CallRoute ==
    /\ op = "none"
    /\ IF IsBlank(text)
       THEN Served("route", parse_message_to_query(text, today, USE_LLM, <<>>, <<>>))
       ELSE \E lt \in {Lowered(Strip(text))} :
                \E resp \in Answers :
                    \E countries \in Orderings(detect_countries_in_text(lt)) :
                        \E r \in {Route(lt, today, USE_LLM, resp, countries)} :
                            Served("route", r)

Next == CallDetectPeriod \/ CallDetectCountries \/ CallInterpret \/ CallRoute

Spec == Init /\ [][Next]_vars

-----------------------------------------------------------------------------
(* ai_parser.eurostat_fetch and fetch_data_auto *)

\* What Eurostat answers to a request for geo: observations when the dataset
\* serves that code, else what up.miss says (a non-200 status, or a payload
\* without values)
Answer(up, geo) ==
    IF up.miss = "timeout" THEN [kind |-> "timeout", obs |-> <<>>]
    ELSE IF geo \in up.serves THEN [kind |-> "ok", obs |-> up.obs]
    ELSE [kind |-> up.miss, obs |-> <<>>]

\* eurostat_fetch(dataset, params, geo): one request, whatever it yields
eurostat_fetch(dataset, params, geo, fs, up) ==
    LET sent == <<IF "geo" \in DOMAIN params THEN params.geo ELSE geo>>
        resp == Answer(up, sent[1])
        obs  == resp.obs
        order == ByTime(obs, {i \in DOMAIN obs : obs[i].time # 0})
    IN  ("sent" :> sent) @@
        (IF resp.kind = "timeout" THEN Raised("Timeout", fs, 1, "")
         ELSE IF resp.kind \in {"status", "value"}
         THEN Fetched(EmptyTable, fs, 1, "", "fetched")
         \* no record: the frame has no time column (line 353)
         ELSE IF obs = <<>> THEN Raised("KeyError", fs, 1, "")
         ELSE Fetched([columns |-> <<"geo", "time", "value", "date">>,
                       rows    |-> [n \in DOMAIN order |->
                                      [geo |-> obs[order[n]].geo,
                                       time |-> obs[order[n]].time,
                                       value |-> obs[order[n]].value,
                                       date |-> obs[order[n]].time]],
                       index   |-> Labels(order)], fs, 1, "", "fetched"))

\* df["country"] = ...; df["indicator"] = ...
Labelled(r, country, indicator) ==
    IF r.kind = "raise" THEN r
    ELSE [r EXCEPT !.table =
            [columns |-> r.table.columns \o <<"country", "indicator">>,
             rows    |-> [n \in DOMAIN r.table.rows |->
                            ("country" :> country) @@ ("indicator" :> indicator)
                                @@ r.table.rows[n]],
             index   |-> r.table.index]]

\* fetch_data_auto(query_dict)
fetch_data_auto(plan, fs, json, csv, up) ==
    IF plan.provider = "ECB"
    THEN Labelled(fetch_ecb([flow |-> plan.flow, key |-> plan.series], fs, json, csv),
                  "EA", plan.indicator)
    ELSE IF plan.provider = "Eurostat"
    THEN Only({Labelled(eurostat_fetch(plan.dataset, plan.params, geo, fs, up),
                        geo, plan.indicator) :
               geo \in {IF "geo" \in DOMAIN plan.params THEN plan.params.geo ELSE "EA"}})
    ELSE ("sent" :> <<>>) @@ Fetched(EmptyTable, fs, 0, "", "fetched")

-----------------------------------------------------------------------------
(* The fetches *)

MaxNewYears == 1

\* What an upstream can send: observations in any order, some with a time or
\* a value that does not parse; or nothing of use
EcbObservations ==
    { <<[time |-> 2, value |-> "2.2"], [time |-> 0, value |-> "2.0"],
        [time |-> 1, value |-> "2.4"], [time |-> 3, value |-> "n/a"]>>,
      <<[time |-> 1, value |-> "n/a"]>>,
      <<>> }

\* A response to a request for two countries, with its REF_AREA column
AreaObservations ==
    { <<[time |-> 1, value |-> "0.9", area |-> "IT"],
        [time |-> 1, value |-> "2.3", area |-> "BE"]>> }

EurostatObservations ==
    { <<[time |-> 2, geo |-> "Italy", value |-> "6.0"],
        [time |-> 0, geo |-> "Italy", value |-> "5.9"],
        [time |-> 1, geo |-> "Italy", value |-> "n/a"]>>,
      <<[time |-> 0, geo |-> "Italy", value |-> "5.9"],
        [time |-> 1, geo |-> "Italy", value |-> "6.1"]>>,
      <<>> }

\* The responses: a failure of one of the kinds, or observations; KEY is the
\* response's KEY column, "" for none
Upstream(failures, observations, keys) ==
    [kind : failures, obs : {<<>>}, KEY : {""}]
        \cup [kind : {"ok"}, obs : observations, KEY : keys]

EcbParams == {[lastNObservations |-> 12], [startPeriod |-> "2019-01"]}

EbcRequests ==
    [flow : {"ICP"}, key : {"M.U2.N.000000.4.ANR"}, params : EcbParams, cache : BOOLEAN]
        \cup [flow : {"ICP"}, key : {"M.IT+BE.N.000000.4.ANR"},
              params : {[startPeriod |-> "2019-01"]}, cache : {FALSE}]

EcbRequests ==
    [flow : {"ICP"}, key : {"M.U2.N.000000.4.ANR", "M.IT+BE.N.000000.4.ANR"},
     params : EcbParams]

EurostatRequests ==
    [dataset : {"une_rt_m"},
     params : {[geo |-> "IT"], [geo |-> "IT", sinceTimePeriod |-> "2020"]}]

\* A request without its cache switch: the dataset and the parameters
Asked(req) == [x \in DOMAIN req \ {"cache"} |-> req[x]]

\* The bookkeeping of a fetch call that returned r.  first keeps, per
\* request, what the fetch that stored its cache entry returned, for as long
\* as that file has been read without a failure; last.later and last.stored
\* are what first had for the request when the call was made.
Done(name, req, upstream, r, caching, readFailed) ==
    /\ last' = [x \in DOMAIN r \ DOMAIN Fetched(EmptyTable, <<>>, 0, "", "") |-> r[x]] @@
               [fetcher |-> name, req |-> req, year |-> year, upstream |-> upstream,
                kind |-> r.kind, table |-> r.table, exc |-> r.exc,
                network |-> r.network, how |-> r.how, path |-> r.path,
                caching |-> caching, readFailed |-> readFailed,
                later |-> Asked(req) \in DOMAIN first,
                stored |-> IF Asked(req) \in DOMAIN first
                           THEN [table |-> first[Asked(req)].table,
                                 year |-> first[Asked(req)].year]
                           ELSE [table |-> EmptyTable, year |-> year]]
    /\ files' = r.files
    /\ writer' = IF r.how = "stored" THEN (r.path :> Asked(req)) @@ writer ELSE writer
    /\ first' =
         LET kept == {q \in DOMAIN first : ~(readFailed /\ first[q].path = r.path)}
             seen == [q \in kept |-> first[q]]
         IN  IF r.how = "stored" /\ r.kind = "table"
             THEN (Asked(req) :> [table |-> r.table, year |-> year, path |-> r.path])
                     @@ seen
             ELSE seen
    /\ UNCHANGED <<year, request, shared>>

\* The fetchers share no state (each cache has a directory of its own), so a
\* behaviour follows the calls made to one of them
Uses(name) == last.fetcher \in {"", name}

\* Whether a file operation works matters only where one is made
Either(relevant) == IF relevant THEN BOOLEAN ELSE {TRUE}

Call_ebc_fetch_ecb_data ==
    /\ Uses("ebc_adapter")
    /\ \E req \in EbcRequests :
         \E lib \in Upstream({"raise", "columns"},
                             IF Len(Split(req.key, "+")) > 1
                             THEN EcbObservations \cup AreaObservations
                             ELSE EcbObservations, {""}) :
           \E readOk \in Either(req.cache /\ cache_file(req.flow, req.key) \in DOMAIN files) :
             \E writeOk \in Either(req.cache /\ lib.kind = "ok") :
               \E r \in {("writeFailed" :> ~writeOk) @@ ("data" :> (lib.obs # <<>>))
                            @@ ("obs" :> lib.obs) @@ ("KEY" :> lib.KEY)
                            @@ ebc_fetch_ecb_data(req, files, lib, readOk, writeOk)} :
                   Done("ebc_adapter", req, lib.kind, r, req.cache, ~readOk)

Call_fetch_eurostat_data ==
    /\ Uses("eurostat_adapter")
    /\ \E req \in EurostatRequests :
         \E resp \in Upstream({"status", "timeout", "value", "geo"},
                              EurostatObservations, {""}) :
           \E readOk \in Either(CachePath(_cache_key(req.dataset,
                                   QueryString(req.params, year))) \in DOMAIN files) :
             \E writeOk \in Either(resp.kind = "ok") :
               \E r \in {("writeFailed" :> ~writeOk) @@ ("data" :> (resp.obs # <<>>))
                            @@ fetch_eurostat_data(req, files, year, resp, readOk, writeOk)} :
                   Done("eurostat_adapter", req, resp.kind, r, TRUE, ~readOk)

Call_ecb_fetch_ecb_data ==
    /\ Uses("ecb_adapter")
    /\ \E req \in EcbRequests :
         \E resp \in Upstream({"status", "timeout", "columns"}, EcbObservations,
                              {"", "ICP.M.U2.N.000000.4.ANR"}) :
           \E r \in {("obs" :> resp.obs) @@ ("KEY" :> resp.KEY)
                        @@ ecb_fetch_ecb_data(req, files, resp)} :
               Done("ecb_adapter", req, resp.kind, r, FALSE, FALSE)

Call_fetch_ecb ==
    /\ Uses("ai_parser")
    /\ \E req \in EcbRequests :
         \E json \in Upstream({"status", "timeout", "columns"}, EcbObservations, {""}) :
           \E csv \in IF json.kind = "status"
                      THEN Upstream({"status", "timeout", "columns"}, EcbObservations, {""})
                      ELSE {json} :
             \E r \in {fetch_ecb(req, files, json, csv)} :
                 Done("ai_parser", req, IF json.kind = "status" THEN csv.kind ELSE json.kind,
                      r, FALSE, FALSE)

\* The codes Eurostat has for the euro area, the generic one first
EuroAreaCodes == <<"EA", "EA20", "EA19">>

\* The plans handed to fetch_data_auto: plans of the interpreter, and one of
\* a provider it does not know
AutoPlans ==
    { PlanOf("inflation", "EA", [startPeriod |-> "2021-11"], <<>>).plan,
      PlanOf("unemployment", "EA", [startPeriod |-> "2021-11"], <<>>).plan,
      PlanOf("unemployment", "IT", [startPeriod |-> "2021-11"], <<>>).plan,
      [provider |-> "IMF", dataset |-> "WEO", params |-> [geo |-> "EA"],
       indicator |-> "World GDP"] }

\* What Eurostat does: the codes the dataset serves, what it answers for
\* another code, and the observations it has
AutoUpstreams ==
    [serves : {{}, {"EA19"}, {"EA", "EA20", "EA19"}, {"IT"}},
     miss   : {"status", "value", "timeout"},
     obs    : EurostatObservations]

Unasked == [kind |-> "none", obs |-> <<>>, KEY |-> ""]

Call_fetch_data_auto ==
    /\ Uses("fetch_data_auto")
    /\ \E plan \in AutoPlans :
         \E json \in IF plan.provider = "ECB"
                     THEN Upstream({"status", "timeout", "columns"}, EcbObservations, {""})
                     ELSE {Unasked} :
           \E csv \in IF json.kind = "status"
                      THEN Upstream({"status", "timeout", "columns"}, EcbObservations, {""})
                      ELSE {json} :
             \E up \in IF plan.provider = "Eurostat" THEN AutoUpstreams
                       ELSE {[serves |-> {}, miss |-> "status", obs |-> <<>>]} :
               \E r \in {("serves" :> up.serves) @@ ("data" :> (up.obs # <<>>))
                            @@ fetch_data_auto(plan, files, json, csv, up)} :
                   Done("fetch_data_auto", plan,
                        IF plan.provider = "ECB"
                        THEN (IF json.kind = "status" THEN csv.kind ELSE json.kind)
                        ELSE IF plan.provider = "Eurostat" THEN Answer(up, plan.params.geo).kind
                        ELSE "none",
                        r, FALSE, FALSE)

\* The calendar year turns
NewYear ==
    /\ year - YearMonth(today).year < MaxNewYears
    /\ year' = year + 1
    /\ UNCHANGED <<files, writer, first, last, request, shared>>

InitFetch ==
    /\ text = ""
    /\ today = 739924
    /\ USE_LLM = FALSE
    /\ op = "none"
    /\ out = [kind |-> "none"]
    /\ calls = <<>>
    /\ NoFetches

NextFetch ==
    \/ Call_ebc_fetch_ecb_data
    \/ Call_fetch_eurostat_data
    \/ Call_ecb_fetch_ecb_data
    \/ Call_fetch_ecb
    \/ Call_fetch_data_auto
    \/ NewYear

SpecFetch == InitFetch /\ [][NextFetch]_vars

-----------------------------------------------------------------------------
(* Two concurrent calls of ebc_adapter.fetch_ecb_data for one key *)

\* The calls, and what ecbdata.get_series returns to each of them
Procs == {1, 2, 3}

RaceRequest ==
    [flow |-> "ICP", key |-> "M.U2.N.000000.4.ANR",
     params |-> [startPeriod |-> "2019-01"], cache |-> TRUE]

RaceObservations ==
    << <<[time |-> 1, value |-> "2.4"], [time |-> 2, value |-> "2.2"]>>,
       <<[time |-> 1, value |-> "2.5"]>>,
       <<[time |-> 1, value |-> "2.4"], [time |-> 2, value |-> "2.2"],
         [time |-> 3, value |-> "2.0"]>> >>

Frame(p) == _normalize_ecb_df(RaceObservations[p], RaceRequest.key, RaceRequest.flow)

\* The lines of a CSV file: the header line, then one line per row.  A line
\* stands for what one write() of the buffered file hands to the system.
NoRow == [TIME_PERIOD |-> 0, OBS_VALUE |-> "n/a", COUNTRY |-> "", FLOW |-> ""]

CsvLines(df) ==
    <<[kind |-> "header", row |-> NoRow]>>
        \o [n \in DOMAIN df.rows |-> [kind |-> "row", row |-> df.rows[n]]]

\* A write of line k at the writer's own offset, into a file another
\* writer may have truncated meanwhile (the gap then reads as NUL bytes)
WriteAt(lines, k, line) ==
    [n \in 1..(IF k > Len(lines) THEN k ELSE Len(lines)) |->
        IF n = k THEN line
        ELSE IF n <= Len(lines) THEN lines[n]
        ELSE [kind |-> "hole", row |-> NoRow]]

\* Line 50: pd.read_csv(cache_file, parse_dates=["TIME_PERIOD"]) raises on
\* a file without bytes and on one without the TIME_PERIOD column
CsvReads(lines) == Len(lines) > 0 /\ lines[1].kind = "header"

read_csv(lines) ==
    [columns |-> <<"TIME_PERIOD", "OBS_VALUE", "COUNTRY", "FLOW">>,
     rows    |-> [n \in 1..(Len(lines) - 1) |-> lines[n + 1].row],
     index   |-> RangeIndex(Len(lines) - 1)]

\* Lines 47-54, then 56-70 on a miss: the call answers from the file when it
\* exists and reads, and else fetches
RaceStart(p) ==
    /\ pc[p] = "start"
    /\ IF disk.exists /\ CsvReads(disk.lines)
       THEN /\ res' = [res EXCEPT ![p] = [how |-> "hit", table |-> read_csv(disk.lines)]]
            /\ pc' = [pc EXCEPT ![p] = "done"]
       ELSE /\ pc' = [pc EXCEPT ![p] = "open"]
            /\ UNCHANGED res
    /\ UNCHANGED <<disk, off, catalog, synonyms, prev, request, fetches>>

\* Line 73, df.to_csv(cache_file, index=False): the file is opened for
\* writing, which creates or truncates it
RaceOpen(p) ==
    /\ pc[p] = "open"
    /\ disk' = [exists |-> TRUE, lines |-> <<>>]
    /\ off' = [off EXCEPT ![p] = 0]
    /\ pc' = [pc EXCEPT ![p] = "write"]
    /\ UNCHANGED <<res, catalog, synonyms, prev, request, fetches>>

\* Line 73, continued: the next line is written; after the last one the
\* call returns its frame (line 76)
RaceWrite(p) ==
    /\ pc[p] = "write"
    /\ \E lines \in {CsvLines(Frame(p))} :
           /\ disk' = [disk EXCEPT !.lines = WriteAt(@, off[p] + 1, lines[off[p] + 1])]
           /\ off' = [off EXCEPT ![p] = @ + 1]
           /\ IF off[p] + 1 = Len(lines)
              THEN /\ pc' = [pc EXCEPT ![p] = "done"]
                   /\ res' = [res EXCEPT ![p] = [how |-> "stored", table |-> Frame(p)]]
              ELSE UNCHANGED <<pc, res>>
    /\ UNCHANGED <<catalog, synonyms, prev, request, fetches>>

InitRace ==
    /\ text = ""
    /\ today = 739924
    /\ USE_LLM = FALSE
    /\ op = "none"
    /\ out = [kind |-> "none"]
    /\ calls = <<>>
    /\ year = YearMonth(today).year
    /\ files = <<>>
    /\ writer = <<>>
    /\ first = <<>>
    /\ last = [kind |-> "none", fetcher |-> "", later |-> FALSE]
    /\ catalog = INDICATOR_CATALOG
    /\ synonyms = SYNONYMS
    /\ prev = [kind |-> "none"]
    /\ disk = [exists |-> FALSE, lines |-> <<>>]
    /\ pc = [p \in Procs |-> "start"]
    /\ off = [p \in Procs |-> 0]
    /\ res = [p \in Procs |-> [how |-> "none", table |-> EmptyTable]]

NextRace == \E p \in Procs : RaceStart(p) \/ RaceOpen(p) \/ RaceWrite(p)

SpecRace == InitRace /\ [][NextRace]_vars

-----------------------------------------------------------------------------
(* eurostat_adapter._expand_sdmx_json *)

\* itertools.product of the lists, the first list being the outermost loop
RECURSIVE Product(_)
Product(lists) ==
    IF lists = <<>> THEN << <<>> >>
    ELSE LET rest == Product(Tail(lists))
         IN  [n \in 1..(Len(Head(lists)) * Len(rest)) |->
                 <<Head(lists)[((n - 1) \div Len(rest)) + 1]>>
                     \o rest[((n - 1) % Len(rest)) + 1]]

\* Line 44: the codes of a category index, sorted by their index numbers.
\* An index is the sequence of the <<code, number>> items of the JSON object.
OrderedCodes(index) ==
    [n \in 1..Len(index) |->
        index[CHOOSE k \in 1..Len(index) :
                  Cardinality({m \in 1..Len(index) :
                      \/ index[m][2] < index[k][2]
                      \/ index[m][2] = index[k][2] /\ m < k}) = n - 1][1]]

\* Lines 34-67.  j.dimension is the sequence of the dimensions as declared,
\* j.value the sequence of the <<flat position, value>> items of the JSON
\* object "value" (or of the JSON array, where every position has an item).
_expand_sdmx_json(j) ==
    LET codes_by_dim == [d \in DOMAIN j.dimension |-> OrderedCodes(j.dimension[d].index)]
        values == [n \in DOMAIN j.value |-> j.value[n][2]]
        combos == Product(codes_by_dim)
        count  == IF Len(combos) < Len(values) THEN Len(combos) ELSE Len(values)
    IN  [i \in 1..count |->
            [codes  |-> combos[i],
             labels |-> [d \in DOMAIN j.dimension |->
                            IF \E l \in j.dimension[d].label : l[1] = combos[i][d]
                            THEN (CHOOSE l \in j.dimension[d].label :
                                      l[1] = combos[i][d])[2]
                            ELSE combos[i][d]],
             value  |-> values[i]]]

\* The payloads: one frequency, two countries whose index numbers need not
\* follow the order of the object's members, three years; the value object
\* holds the positions that have an observation
ExpandTimes == <<"2020", "2021", "2022">>

ExpandValues == <<"5.0", "5.1", "5.2", "6.0", "6.1", "6.2">>

Payloads ==
    { [dimension |->
          << [name |-> "freq", index |-> << <<"A", 0>> >>, label |-> {<<"A", "Annual">>}],
             [name |-> "geo", index |-> geo, label |-> {<<"IT", "Italy">>}],
             [name |-> "time",
              index |-> [n \in DOMAIN ExpandTimes |-> <<ExpandTimes[n], n - 1>>],
              label |-> {}] >>,
       value |-> [n \in 1..Cardinality(held) |->
                     <<Ascending(held)[n] - 1, ExpandValues[Ascending(held)[n]]>>]] :
      geo \in { << <<"IT", 0>>, <<"FR", 1>> >>, << <<"IT", 1>>, <<"FR", 0>> >> },
      held \in SUBSET DOMAIN ExpandValues }

Call_expand_sdmx_json ==
    /\ last.kind = "none"
    /\ \E j \in Payloads :
           \E records \in {_expand_sdmx_json(j)} :
               last' = [kind |-> "records", fetcher |-> "_expand_sdmx_json",
                        later |-> FALSE, payload |-> j, records |-> records]
    /\ UNCHANGED <<year, files, writer, first, request, shared>>

InitExpand ==
    /\ text = ""
    /\ today \in Todays
    /\ USE_LLM = FALSE
    /\ op = "none"
    /\ out = [kind |-> "none"]
    /\ calls = <<>>
    /\ NoFetches

SpecExpand == InitExpand /\ [][Call_expand_sdmx_json]_vars

-----------------------------------------------------------------------------
(* A process serving one request after another *)

\* A plan that is the catalog entry it was made from, where there is one
PlanRefShared(plan) ==
    IF \E k \in DOMAIN INDICATOR_CATALOG : INDICATOR_CATALOG[k].label = plan.indicator
    THEN CHOOSE k \in DOMAIN INDICATOR_CATALOG : INDICATOR_CATALOG[k].label = plan.indicator
    ELSE "fresh"

\* The object a returned plan is.  Every return of interpret_query_with_ai
\* (lines 391-394, 410-415, 418-421) and of _default_plan (lines 112-122) is
\* a dict display, and the Eurostat params are the display
\* {**meta["params"], "geo": country}: objects made by the call, "fresh",
\* and never the catalog entry of a key.
PlanRef(plan) == "fresh"

\* The dict behind a reference: the plan just built, or the catalog's entry
Returned(cat, ref, plan) == IF ref = "fresh" THEN plan ELSE cat[ref]

SessionTexts ==
    { "inflation", "inflation in france and italy", "unemployment in italy",
      "euro dollar", "hello", "" }

\* interpret_query_with_ai(t): nothing is written but the returned object
SessionInterpret ==
    \E t \in SessionTexts : \E resp \in Answers :
        \E r \in {interpret_query_with_ai(t, today, USE_LLM, resp)} :
            \E ref \in {IF r.kind = "plan" THEN PlanRef(r.plan) ELSE "fresh"} :
                /\ text' = t
                /\ op' = "interpret"
                /\ calls' = r.calls
                /\ out' = IF r.kind = "plan"
                          THEN [kind |-> "plan", plan |-> Returned(catalog, ref, r.plan)]
                          ELSE Result(r)
                /\ prev' = out
                /\ UNCHANGED <<today, USE_LLM, catalog, synonyms, fetches, disk, pc, off, res>>

\* parse_message_to_query(t): lines 85-90 write the annotations into the
\* dict the interpreter returned, whichever object that is
SessionRoute ==
    \E t \in SessionTexts : \E resp \in Answers :
        \E countries \in Orderings(detect_countries_in_text(Lowered(Strip(t)))) :
            \E r \in {parse_message_to_query(t, today, USE_LLM, resp, countries)} :
                \E qp \in {IF IsBlank(t) THEN Raise("", <<>>)
                           ELSE Interpret(Lowered(Strip(t)), today, USE_LLM, resp)} :
                    \E ref \in {IF qp.kind = "plan" THEN PlanRef(qp.plan) ELSE "fresh"} :
                        \E plan \in {IF ref = "fresh" THEN r.plan
                                     ELSE Annotate(catalog[ref], r.plan.chart_mode,
                                                   r.plan.analysis_type, countries)} :
                            /\ text' = t
                            /\ op' = "route"
                            /\ calls' = r.calls
                            /\ out' = [kind |-> "plan", plan |-> plan]
                            /\ catalog' = IF ref = "fresh" THEN catalog
                                          ELSE [catalog EXCEPT ![ref] = plan]
                            /\ prev' = out
                            /\ UNCHANGED <<today, USE_LLM, synonyms, fetches,
                                           disk, pc, off, res>>

InitSession ==
    /\ text = ""
    /\ today = 739924
    /\ USE_LLM \in BOOLEAN
    /\ op = "none"
    /\ out = [kind |-> "none"]
    /\ calls = <<>>
    /\ NoFetches

NextSession == SessionInterpret \/ SessionRoute

SpecSession == InitSession /\ [][NextSession]_vars

-----------------------------------------------------------------------------
(* The claims about interpretation and routing *)

Served_interpret == op = "interpret"
Served_route == op = "route"

\* C4: interpret never raises: whatever fails inside it is caught and
\* turned into a null result, so no call to interpret ends in an exception.
C4_InterpretNeverRaises == Served_interpret => out.kind # "raise"

NonEmptyFields(plan) ==
    /\ {"provider", "indicator", "params"} \subseteq DOMAIN plan
    /\ plan.provider # ""
    /\ plan.indicator # ""
    /\ DOMAIN plan.params # {}

RoutedToDefault == Served_route /\ calls[Len(calls)] = "_default_plan"

\* C5: every plan interpret returns, and every default plan the router
\* returns, has a non-empty provider, indicator label and params mapping.
C5_PlansComplete ==
    (Served_interpret /\ out.kind = "plan") \/ RoutedToDefault => NonEmptyFields(out.plan)

\* The router fell back to its default plan because the interpreter raised
C5_Witness ==
    /\ RoutedToDefault
    /\ Len(calls) > 1
    /\ NonEmptyFields(out.plan)
    /\ out.plan.params = [lastNObservations |-> 12]

\* C6: a text with "since YYYY" gets startPeriod "YYYY-01" for a year it
\* names so, whether or not it has a "last N years/months" phrase too.
C6_SinceWins ==
    op = "detect_period" =>
        \A lt \in {Lowered(text)} :
            (\E i \in Positions(lt.t) : SinceAt(lt.t, i)) =>
                /\ out.kind = "ok"
                /\ DOMAIN out.val = {"startPeriod"}
                /\ \E i \in Positions(lt.t) :
                       /\ SinceAt(lt.t, i)
                       /\ out.val.startPeriod = SubSeq(lt.t, SkipSpaces(lt.t, i + 5),
                                                       SkipSpaces(lt.t, i + 5) + 3) \o "-01"

\* "since 2015" together with a "last N years" phrase
C6_Witness ==
    /\ op = "detect_period"
    /\ \E lt \in {Lowered(text)} :
           /\ Has(lt, "since 2015")
           /\ \E i \in Positions(lt.t) : LastAt(lt.t, i, "year")
    /\ out = [kind |-> "ok", val |-> [startPeriod |-> "2015-01"]]

\* C7: a text the FX pattern matches gets a plan of provider ECB and flow
\* EXR whose series is D.<CODE>.EUR.SP00.A and whose label contains <CODE>,
\* for the code of an alias the pattern found.
C7_FxPlan ==
    Served_interpret =>
        \A lt \in {Lowered(text)} :
            FxHits(lt) # {} =>
                /\ out.kind = "plan"
                /\ out.plan.provider = "ECB"
                /\ out.plan.flow = "EXR"
                /\ \E i \in FxHits(lt) :
                       /\ out.plan.series = "D." \o fx_aliases[i][2] \o ".EUR.SP00.A"
                       /\ fx_aliases[i][2] \in Substrings(out.plan.indicator)

\* C8: with no FX match, no synonym and no classifier, interpret returns
\* the plan of the inflation entry: ECB, ICP, the euro-area series.
C8_InflationFallback ==
    Served_interpret /\ ~USE_LLM =>
        \A lt \in {Lowered(text)} :
            FxHits(lt) = {} /\ match_indicator(lt) = <<>> =>
                /\ out.kind = "plan"
                /\ out.plan.provider = "ECB"
                /\ out.plan.flow = "ICP"
                /\ out.plan.series = "M.U2.N.000000.4.ANR"
                /\ out.plan.indicator = "Inflation (HICP YoY)"

\* C9: when the stripped text names two or more of the router's countries,
\* the plan route returns has compare_mode "multi-country" and a countries
\* field holding exactly the names that occur; the source's example message
\* gets compare / comparison / multi-country / {france, italy}.
C9_MultiCountry ==
    Served_route =>
        \A lt \in {Lowered(Strip(text))} :
            /\ Cardinality({c \in RouterCountries : Has(lt, c)}) >= 2 =>
                  /\ out.kind = "plan"
                  /\ {"compare_mode", "countries"} \subseteq DOMAIN out.plan
                  /\ out.plan.compare_mode = "multi-country"
                  /\ {out.plan.countries[i] : i \in DOMAIN out.plan.countries}
                        = {c \in RouterCountries : Has(lt, c)}
            /\ text = "Compare unemployment between France and Italy" =>
                  /\ out.plan.chart_mode = "compare"
                  /\ out.plan.analysis_type = "comparison"
                  /\ out.plan.compare_mode = "multi-country"
                  /\ {out.plan.countries[i] : i \in DOMAIN out.plan.countries}
                        = {"france", "italy"}

AllSpaces(s) == \A i \in 1..Len(s) : Char(s, i) \in {" ", "\t", "\n"}

\* C10: for empty or whitespace-only input route returns the hard-coded
\* default plan and calls neither the interpreter nor an intent detector.
C10_BlankInput ==
    Served_route /\ AllSpaces(text) =>
        /\ out.kind = "plan"
        /\ out.plan = [provider |-> "ECB", flow |-> "ICP",
                       series |-> "M.U2.N.000000.4.ANR", freq |-> "M",
                       indicator |-> "Inflation (Euro area, default)",
                       params |-> [lastNObservations |-> 12],
                       chart_mode |-> "single", analysis_type |-> "neutral",
                       compare_mode |-> "none"]
        /\ calls = <<"_default_plan">>

\* A message of spaces only, routed
C10_Witness ==
    /\ Served_route
    /\ text # ""
    /\ AllSpaces(text)
    /\ calls = <<"_default_plan">>
    /\ out.plan.params.lastNObservations = 12

\* C11: for a text that is not blank, route does not raise, and when the
\* interpreter gave no plan it returns the default euro-area inflation plan
\* carrying the chart mode and analysis type the detectors computed.
C11_FallbackKeepsIntent ==
    Served_route /\ ~AllSpaces(text) =>
        \A lt \in {Lowered(Strip(text))} :
            /\ out.kind = "plan"
            /\ \/ RoutedToDefault
               \/ \A resp \in Answers : Interpret(lt, today, USE_LLM, resp).kind = "raise"
               => out.plan = [provider |-> "ECB", flow |-> "ICP",
                              series |-> "M.U2.N.000000.4.ANR", freq |-> "M",
                              indicator |-> "Inflation (Euro area, default)",
                              params |-> [lastNObservations |-> 12],
                              chart_mode |-> detect_chart_mode(lt),
                              analysis_type |-> detect_analysis_type(lt),
                              compare_mode |-> "none"]

\* The interpreter raised on a text asking for a comparison
C11_Witness ==
    /\ Served_route
    /\ ~AllSpaces(text)
    /\ RoutedToDefault
    /\ out.plan.chart_mode = "compare"
    /\ out.plan.analysis_type = "comparison"

\* C16: detect_countries returns the codes of all names of its table that
\* occur in the lower-cased text, and the euro-area code when none occurs
\* (a single code being read as the set holding it).
C16_AllCountryCodes ==
    op = "detect_countries" =>
        \A lt \in {Lowered(text)} :
            {out.val} = IF \E i \in DOMAIN COUNTRY_CODES : Has(lt, COUNTRY_CODES[i][1])
                        THEN {COUNTRY_CODES[i][2] : i \in {j \in DOMAIN COUNTRY_CODES :
                                                            Has(lt, COUNTRY_CODES[j][1])}}
                        ELSE {"EA"}

\* C23: a text the FX pattern matches gets the exchange-rate plan whatever
\* synonyms it contains, and neither the synonym table nor the classifier
\* is consulted for it.
C23_FxBeforeSynonyms ==
    Served_interpret =>
        \A lt \in {Lowered(text)} :
            FxHits(lt) # {} =>
                /\ out.kind = "plan"
                /\ out.plan.flow = "EXR"
                /\ \A n \in DOMAIN calls :
                       calls[n] \notin {"match_indicator", "llm_detect_category"}

\* The catalog keys the classifier's loop finds in an answer
KeysIn(content) ==
    {SYNONYMS[i][1] : i \in {j \in 1..Len(SYNONYMS) :
                                Has(Lowered(Strip(content)), SYNONYMS[j][1])}}

ClassifierCalls == {n \in DOMAIN calls : calls[n] = "llm_detect_category"}

\* C24: interpret asks the classifier at most once, and only with a client
\* configured and after neither the FX pattern nor a synonym matched; a
\* failed call or an answer holding no catalog key leaves the inflation
\* plan, and any other plan is that of a key the answer holds.
C24_ClassifierLastResort ==
    Served_interpret =>
        \A lt \in {Lowered(text)} :
            /\ Cardinality(ClassifierCalls) <= 1
            /\ ClassifierCalls # {} =>
                  /\ USE_LLM /\ FxHits(lt) = {} /\ match_indicator(lt) = <<>>
                  /\ out.heard.kind = "error" \/ KeysIn(out.heard.content) = {} =>
                        /\ out.kind = "plan"
                        /\ out.plan.flow = "ICP"
                        /\ out.plan.indicator = INDICATOR_CATALOG["inflation"].label
                  /\ out.kind = "plan" /\ out.heard.kind = "content" =>
                        \/ /\ KeysIn(out.heard.content) = {}
                           /\ out.plan.indicator = INDICATOR_CATALOG["inflation"].label
                        \/ \E k \in KeysIn(out.heard.content) :
                               out.plan.indicator = INDICATOR_CATALOG[k].label
            /\ ClassifierCalls = {} => out.heard.kind = "none"

\* A failed classifier call, after which interpret returned the inflation plan
C24_Witness ==
    /\ Served_interpret
    /\ ClassifierCalls # {}
    /\ out.heard.kind = "error"
    /\ out.kind = "plan"
    /\ out.plan.flow = "ICP"

\* C25: with no FX match, a text holding a phrase of some synonym list gets
\* the plan of the first catalog key, in the order of the synonym table,
\* one of whose phrases it holds.
C25_FirstSynonymKey ==
    Served_interpret =>
        \A lt \in {Lowered(text)} :
            FxHits(lt) = {} /\ match_indicator(lt) # <<>> =>
                \A k \in {SYNONYMS[Min({i \in 1..Len(SYNONYMS) :
                              \E s \in SYNONYMS[i][2] : Has(lt, s)})][1]} :
                    /\ out.kind = "plan"
                    /\ out.plan.provider = INDICATOR_CATALOG[k].provider
                    /\ out.plan.indicator = INDICATOR_CATALOG[k].label

\* C28: the params of a plan interpret returns hold the startPeriod that
\* detect_period computed for the text, whichever the provider, and the
\* geo of a Eurostat plan is what detect_countries found.
C28_PlanHasPeriodAndRegion ==
    Served_interpret /\ out.kind = "plan" =>
        \A lt \in {Lowered(text)} :
            /\ "startPeriod" \in DOMAIN out.plan.params
            /\ out.plan.params.startPeriod = detect_period(lt, today).val.startPeriod
            /\ out.plan.provider = "Eurostat" =>
                   {out.plan.params.geo} = {detect_countries(lt)}

\* C29: a plan returned by route has a chart_mode, an analysis_type and a
\* compare_mode, each from its vocabulary, and the compare_mode is "none"
\* when the text names fewer than two countries.
C29_AnnotationsPresent ==
    Served_route /\ out.kind = "plan" =>
        /\ {"chart_mode", "analysis_type", "compare_mode"} \subseteq DOMAIN out.plan
        /\ out.plan.chart_mode \in {"single", "compare", "trend"}
        /\ out.plan.analysis_type \in {"growth", "decline", "comparison", "neutral"}
        /\ out.plan.compare_mode \in {"none", "multi-country"}
        /\ Cardinality(detect_countries_in_text(Lowered(Strip(text)))) < 2 =>
               out.plan.compare_mode = "none"

-----------------------------------------------------------------------------
(* The claims about the fetchers *)

\* Two tables with the same columns and the same rows in the same order
SameTable(a, b) == a.columns = b.columns /\ a.rows = b.rows

\* The storing fetch and this call computed the same default time window
SameWindow ==
    \/ last.fetcher # "eurostat_adapter"
    \/ "time" \in DOMAIN last.req.params
    \/ "sinceTimePeriod" \in DOMAIN last.req.params
    \/ last.stored.year = last.year

AnswersFirst ==
    /\ last.kind = "table"
    /\ SameTable(last.table, last.stored.table)
    /\ last.network = 0

\* C1 as stated: once a fetch with caching enabled has stored its table,
\* every later call with caching enabled for the same dataset and parameters
\* returns an equal table and makes no network request.
C1_LaterCallsAnsweredFromCache == last.later /\ last.caching => AnswersFirst

\* C1 while the stored entry is found: once a fetch with caching enabled
\* has stored its table, every later call with caching enabled for the same
\* dataset and parameters that reads the cache file without a failure, no
\* read of it having failed since the store, and that (for a Eurostat request
\* naming neither time nor sinceTimePeriod) is made in the calendar year of
\* the store, returns a table of the same columns and rows and makes no
\* network request.
C1_LaterCallsWhileEntryReadable ==
    last.later /\ last.caching /\ ~last.readFailed /\ SameWindow => AnswersFirst

\* A later call answered from the file: the rows of the first call, under
\* the fresh index of a file read
C1_Witness ==
    /\ last.later
    /\ last.caching
    /\ last.how = "hit"
    /\ last.network = 0
    /\ Len(last.table.rows) > 0
    /\ last.table.rows = last.stored.table.rows
    /\ last.table.index # last.stored.table.index

\* The times and values of the rows of a table, whatever its columns are
\* called
RowTimes(t) ==
    {IF "TIME_PERIOD" \in DOMAIN t.rows[i] THEN t.rows[i].TIME_PERIOD
     ELSE IF "date" \in DOMAIN t.rows[i] THEN t.rows[i].date
     ELSE t.rows[i].time : i \in DOMAIN t.rows}

RowValues(t) ==
    {IF "OBS_VALUE" \in DOMAIN t.rows[i] THEN t.rows[i].OBS_VALUE
     ELSE t.rows[i].value : i \in DOMAIN t.rows}

\* C12: every row of a table a provider fetcher returns has a time that
\* parsed and a value that is a number.
C12_RowsClean ==
    last.kind = "table" => 0 \notin RowTimes(last.table) /\ "n/a" \notin RowValues(last.table)

\* telegram_bot._handle_single_query, lines 214-218: the column names under
\* which it reads the region, the time and the value of a fetched table
HandlerColumns == {"COUNTRY", "TIME_PERIOD", "OBS_VALUE"}

\* C13: the tables of the ECB fetcher and of the Eurostat fetcher name their
\* time, value and region columns alike, under the names the consumer reads
\* them by.
C13_SameColumnNames ==
    /\ last.kind = "table"
    /\ last.fetcher \in {"ebc_adapter", "eurostat_adapter"}
    /\ last.table.rows # <<>>
    => HandlerColumns \subseteq {last.table.columns[i] : i \in DOMAIN last.table.columns}

\* C14: asked for the generic euro-area code of a dataset that has data
\* under one of the euro-area codes, the Eurostat fetch returns a non-empty
\* table: an empty result means that none of the codes has data.
C14_AliasFallback ==
    /\ last.fetcher = "fetch_data_auto"
    /\ last.req.provider = "Eurostat"
    /\ last.req.params.geo = "EA"
    /\ last.upstream # "timeout"
    /\ last.data
    /\ \E i \in DOMAIN EuroAreaCodes : EuroAreaCodes[i] \in last.serves
    => last.kind = "table" /\ last.table.rows # <<>>

\* C15: a fetch for a plan whose provider is neither ECB nor Eurostat raises;
\* it returns no table and sends no request.
C15_UnknownProviderRaises ==
    last.fetcher = "fetch_data_auto" /\ last.req.provider \notin {"ECB", "Eurostat"} =>
        last.kind = "raise" /\ last.sent = <<>>

\* C17: one fetch_ecb call sends the sdmx-json request first and once, the
\* csvdata request at most once and only after a non-success status of the
\* first, and nothing more; when both statuses are non-success it returns an
\* empty table.
C17_FormatChain ==
    last.fetcher = "ai_parser" =>
        /\ Len(last.sent) \in {1, 2}
        /\ last.sent[1] = "sdmx-json"
        /\ Len(last.sent) = 2 => last.sent[2] = "csvdata" /\ last.json = "status"
        /\ last.network = Len(last.sent)
        /\ last.json = "status" /\ last.csv = "status" =>
              /\ last.sent = <<"sdmx-json", "csvdata">>
              /\ last.kind = "table"
              /\ last.table.rows = <<>>

\* Both formats answered with a non-success status
C17_Witness ==
    /\ last.fetcher = "ai_parser"
    /\ last.json = "status"
    /\ last.csv = "status"
    /\ last.sent = <<"sdmx-json", "csvdata">>
    /\ last.kind = "table"
    /\ last.table = EmptyTable

\* C18: when the sdmx-json response has a success status and a payload that
\* does not parse, fetch_ecb goes on to the csvdata request.
C18_CsvAfterBadPayload ==
    last.fetcher = "ai_parser" /\ last.json = "columns" =>
        last.sent = <<"sdmx-json", "csvdata">>

\* C2: the cache entry a request is answered from was stored for the same
\* dataset and the same parameter mapping.
C2_KeyCoversParams ==
    last.kind = "table" /\ last.how = "hit" =>
        /\ last.path \in DOMAIN writer
        /\ writer[last.path] = Asked(last.req)

\* C3: when the upstream fails in an ordinary way (a non-success status, a
\* timeout, a response without the expected columns or values) the fetch
\* does not raise and returns an empty table.
C3_EmptyOnUpstreamFailure ==
    /\ last.kind # "none"
    /\ last.how # "hit"
    /\ last.upstream \in {"status", "timeout", "columns", "value", "geo", "raise"}
    => last.kind = "table" /\ last.table.rows = <<>>

\* C19: a cache file that fails to read is treated as a miss, the call going
\* on to the upstream; and when the cache file fails to write, the call
\* still returns the table it fetched.
C19_CacheFailureDoesNotBlock ==
    last.fetcher \in {"ebc_adapter", "eurostat_adapter"} =>
        /\ last.readFailed => last.network > 0 /\ last.how # "hit"
        /\ last.writeFailed /\ last.upstream = "ok" /\ last.data =>
              last.kind = "table" /\ last.table.rows # <<>>

\* C20: a fetch call changes the cache store only when it obtained data from
\* the upstream: a call that ends in an upstream failure or without data
\* leaves every cache file as it was.
C20_OnlyDataIsCached ==
    [][files' # files =>
          /\ last'.upstream = "ok"
          /\ last'.kind = "table"
          /\ last'.table.rows # <<>>]_vars

\* C21: a fetch with caching enabled that finds a readable entry leaves it
\* as it is, and a fetch with caching disabled that obtains data overwrites
\* the entry of its key with the table it returns.
C21_OverwriteOnlyUncached ==
    [][last'.fetcher \in {"ebc_adapter", "eurostat_adapter"} /\ year' = year
       /\ last'.path \in DOMAIN files =>
          /\ last'.caching /\ ~last'.readFailed => files' = files
          /\ ~last'.caching /\ last'.kind = "table" /\ last'.table.rows # <<>> =>
                /\ last'.network > 0
                /\ files'[last'.path] = Written(last'.table)]_vars

\* C22: with concurrent fetches of one key the cache file is, whenever no
\* write is under way, the complete file of one of the writers, and a call
\* answered from the file returns the complete table of one of them.
C22_AtomicEntries ==
    /\ disk.exists /\ (\A p \in Procs : pc[p] # "write") =>
          \E p \in Procs : disk.lines = CsvLines(Frame(p))
    /\ \A p \in Procs :
          res[p].how = "hit" => \E q \in Procs : SameTable(res[p].table, Frame(q))

\* C26: the expansion yields min(#combinations, #values) records; record i
\* is the i-th combination, the first dimension varying slowest and the
\* codes of a dimension in index order, with the value the provider
\* serialized at flat position i.
C26_PositionalExpansion ==
    last.fetcher = "_expand_sdmx_json" =>
        LET dims == last.payload.dimension
            size == [d \in DOMAIN dims |-> Len(dims[d].index)]
            stride[d \in DOMAIN dims] ==
                IF d = Len(dims) THEN 1 ELSE size[d + 1] * stride[d + 1]
            total == size[1] * stride[1]
            given == Len(last.payload.value)
            CodeAt(d, p) ==
                CHOOSE c \in {dims[d].index[k][1] : k \in DOMAIN dims[d].index} :
                    \E k \in DOMAIN dims[d].index :
                        /\ dims[d].index[k][1] = c
                        /\ dims[d].index[k][2] = (p \div stride[d]) % size[d]
        IN  /\ Len(last.records) = IF total < given THEN total ELSE given
            /\ \A i \in DOMAIN last.records :
                   /\ \A d \in DOMAIN dims : last.records[i].codes[d] = CodeAt(d, i - 1)
                   /\ \E n \in DOMAIN last.payload.value :
                          /\ last.payload.value[n][1] = i - 1
                          /\ last.payload.value[n][2] = last.records[i].value

\* The observations of the answered request that have a time and a value
CleanObs == {i \in DOMAIN last.obs : last.obs[i].time # 0 /\ last.obs[i].value # "n/a"}

\* C27: in a table an ECB fetcher built from a response, a row has the
\* reference area of its own observation when the response carries one;
\* else the rows have the codes of the key's country segment, every
\* observation once for each of the '+'-joined codes.
C27_RegionOfRows ==
    /\ last.fetcher \in {"ebc_adapter", "ecb_adapter"}
    /\ last.kind = "table" /\ last.how # "hit" /\ last.table.rows # <<>>
    =>
    LET rows  == last.table.rows
        codes == Split(Split(last.req.key, ".")[2], "+")
    IN  IF \E i \in DOMAIN last.obs : "area" \in DOMAIN last.obs[i]
        THEN \A n \in DOMAIN rows : \E i \in CleanObs :
                 /\ rows[n].TIME_PERIOD = last.obs[i].time
                 /\ rows[n].OBS_VALUE = last.obs[i].value
                 /\ rows[n].COUNTRY = last.obs[i].area
        ELSE IF last.KEY # ""
        THEN \A n \in DOMAIN rows : rows[n].COUNTRY = Split(last.KEY, ".")[3]
        ELSE /\ Len(rows) = Cardinality(CleanObs) * Len(codes)
             /\ \A i \in CleanObs : \A c \in DOMAIN codes : \E n \in DOMAIN rows :
                    /\ rows[n].TIME_PERIOD = last.obs[i].time
                    /\ rows[n].OBS_VALUE = last.obs[i].value
                    /\ rows[n].COUNTRY = codes[c]

Annotations == {"chart_mode", "analysis_type", "compare_mode", "countries"}

\* C30: after any sequence of interpret and route calls the catalog and the
\* synonym table are what they were at import; a plan interpret returns has
\* none of the router's annotations, and the countries in a routed plan are
\* those of its own text.
C30_CatalogReadOnly ==
    /\ catalog = INDICATOR_CATALOG
    /\ synonyms = SYNONYMS
    /\ op = "interpret" /\ out.kind = "plan" => DOMAIN out.plan \cap Annotations = {}
    /\ op = "route" =>
          \A found \in {detect_countries_in_text(Lowered(Strip(text)))} :
              /\ "countries" \in DOMAIN out.plan <=> Cardinality(found) > 1
              /\ "countries" \in DOMAIN out.plan =>
                     {out.plan.countries[i] : i \in DOMAIN out.plan.countries} = found

\* A plan from interpret for the indicator of the request before it, whose
\* routed plan was annotated with its countries
C30_Witness ==
    /\ op = "interpret"
    /\ out.kind = "plan"
    /\ prev.kind = "plan"
    /\ "countries" \in DOMAIN prev.plan
    /\ prev.plan.indicator = out.plan.indicator
    /\ catalog = INDICATOR_CATALOG

=============================================================================
